---- MODULE Spec2Model ----
(***************************************************************************)
(* bigfoont: text rendered as braille art.                                 *)
(*                                                                         *)
(*   src/bigfoont/braille.py   presets, braille encoder, BDF decoder,      *)
(*                             glyph compositor, the two pipelines         *)
(*   src/bigfoont/cli.py       the command surface                         *)
(*                                                                         *)
(* Strings are sequences of code points; a font source is a sequence of    *)
(* lines, each line a record <kind, arguments>; Python's None is NoneVal;  *)
(* a raised exception is recorded in the variable raised.                  *)
(***************************************************************************)
EXTENDS Integers, Sequences, FiniteSets, TLC

VARIABLES
    pc,          \* position of the running call
    args,        \* what the caller passed (size, text, spacing, font source)
    pos,         \* _parse: index of the first line finditer has not consumed
    font,        \* BDFFont: [width, height, glyphs]
    max_ascent,  \* render: locals
    max_descent,
    total_h,
    total_w,
    idx,         \* render: number of characters of text the running loop has done
    x,           \* render: the cursor
    bitmap,      \* the canvas (render's result, the encoder's input)
    char_size,   \* cli.main: what get_preset returned
    output,      \* the string returned
    raised       \* "" or the name of the exception that escaped

vars == <<pc, args, pos, font, max_ascent, max_descent, total_h, total_w,
          idx, x, bitmap, char_size, output, raised>>

NoneVal == "None"

Max(a, b) == IF a >= b THEN a ELSE b

Min(a, b) == IF a <= b THEN a ELSE b

RECURSIVE Pow2(_)
Pow2(n) == IF n = 0 THEN 1 ELSE 2 * Pow2(n - 1)

(***************************************************************************)
(* Braille encoder                                                         *)
(***************************************************************************)
BRAILLE_BASE == 10240

NEWLINE == 10

\* the dots numbered row by row instead of column by column
BRAILLE_DOTS_RowMajor ==
    << <<0, 0, 1>>, <<0, 1, 4>>, <<0, 2, 16>>, <<0, 3, 64>>,
       <<1, 0, 2>>, <<1, 1, 8>>, <<1, 2, 32>>, <<1, 3, 128>> >>

\* (dx, dy, bit), in the order of the source list
BRAILLE_DOTS ==
    << <<0, 0, 1>>, <<0, 1, 2>>, <<0, 2, 4>>, <<0, 3, 64>>,
       <<1, 0, 8>>, <<1, 1, 16>>, <<1, 2, 32>>, <<1, 3, 128>> >>

\* code | bit, for bit a power of two
BitOr(code, bit) == IF (code \div bit) % 2 = 1 THEN code ELSE code + bit

\* bitmap[y][x] with Python's 0-based indices
Pixel(bm, y, xx) == bm[y + 1][xx + 1]

\* the inner loop over BRAILLE_DOTS, from dot i on
RECURSIVE CellCodeFrom(_, _, _, _, _, _, _)
CellCodeFrom(bm, height, width, xx, y, i, code) ==
    IF i > Len(BRAILLE_DOTS) THEN code
    ELSE LET dx == BRAILLE_DOTS[i][1]
             dy == BRAILLE_DOTS[i][2]
             bit == BRAILLE_DOTS[i][3]
             hit == y + dy < height /\ xx + dx < width /\ Pixel(bm, y + dy, xx + dx)
         IN CellCodeFrom(bm, height, width, xx, y, i + 1,
                         IF hit THEN BitOr(code, bit) ELSE code)

CellCode(bm, height, width, xx, y) ==
    CellCodeFrom(bm, height, width, xx, y, 1, BRAILLE_BASE)

\* the loop over x in range(0, width, 2)
RECURSIVE EncodeLine(_, _, _, _, _)
EncodeLine(bm, height, width, xx, y) ==
    IF xx >= width THEN <<>>
    ELSE <<CellCode(bm, height, width, xx, y)>> \o EncodeLine(bm, height, width, xx + 2, y)

\* the loop over y in range(0, height, 4): the list lines
RECURSIVE EncodeLines(_, _, _, _)
EncodeLines(bm, height, width, y) ==
    IF y >= height THEN <<>>
    ELSE <<EncodeLine(bm, height, width, 0, y)>> \o EncodeLines(bm, height, width, y + 4)

\* every line ended by a line break, the last one too
RECURSIVE JoinLines_Terminated(_)
JoinLines_Terminated(lines) ==
    IF Len(lines) = 0 THEN <<>>
    ELSE lines[1] \o <<NEWLINE>> \o JoinLines_Terminated(Tail(lines))

\* '\n'.join(lines)
RECURSIVE JoinLines(_)
JoinLines(lines) ==
    IF Len(lines) = 0 THEN <<>>
    ELSE IF Len(lines) = 1 THEN lines[1]
    ELSE lines[1] \o <<NEWLINE>> \o JoinLines(Tail(lines))

bitmap_to_braille(bm) ==
    IF Len(bm) = 0 \/ Len(bm[1]) = 0 THEN <<>>
    ELSE JoinLines(EncodeLines(bm, Len(bm), Len(bm[1]), 0))

(***************************************************************************)
(* Size presets                                                            *)
(***************************************************************************)
PRESETS ==
    ( <<4, 2>> :> <<8, 8, "8x8 - tiny">> )
    @@ ( <<4, 4>> :> <<8, 16, "8x16 - compact">> )
    @@ ( <<8, 4>> :> <<16, 16, "16x16 - standard">> )
    @@ ( <<8, 6>> :> <<16, 24, "16x24 - tall">> )
    @@ ( <<12, 6>> :> <<24, 24, "24x24 - large">> )
    @@ ( <<16, 8>> :> <<32, 32, "32x32 - extra large">> )

\* PRESETS.get(key, (None,))[:2] or (braille_w * 2, braille_h * 4):
\* the slice of a non-empty tuple is non-empty, hence true
get_preset(braille_w, braille_h) ==
    LET got == IF <<braille_w, braille_h>> \in DOMAIN PRESETS
               THEN PRESETS[<<braille_w, braille_h>>]
               ELSE <<NoneVal>>
        sliced == SubSeq(got, 1, Min(2, Len(got)))
    IN IF Len(sliced) > 0 THEN sliced ELSE <<braille_w * 2, braille_h * 4>>

(***************************************************************************)
(* Bitmap font decoder                                                     *)
(*                                                                         *)
(* A source line is [kind, v]:                                             *)
(*   FONTBOUNDINGBOX <<w, h>>   ENCODING <<enc>>   BBX <<w, h, xo, yo>>    *)
(*   BITMAP   HEX <<value>>   ENDCHAR                                      *)
(*   ENCODING_BAD, BBX_BAD: the keyword with arguments the pattern's       *)
(*                          digit groups reject                            *)
(*   TEXT: any other line (STARTCHAR, SWIDTH, ...), not a hexadecimal      *)
(*         literal                                                         *)
(***************************************************************************)
Line(kind, v) == [kind |-> kind, v |-> v]

DEFAULT_WIDTH == 4

DEFAULT_HEIGHT == 8

\* index of the first line at or after from of the given kind, 0 if none
RECURSIVE FirstKind(_, _, _)
FirstKind(content, from, kind) ==
    IF from > Len(content) THEN 0
    ELSE IF content[from].kind = kind THEN from
    ELSE FirstKind(content, from + 1, kind)

\* re.search(r'FONTBOUNDINGBOX\s+(\d+)\s+(\d+)', content)
FontBoundingBox(content) ==
    LET i == FirstKind(content, 1, "FONTBOUNDINGBOX")
    IN IF i = 0 THEN <<DEFAULT_WIDTH, DEFAULT_HEIGHT>>
       ELSE <<content[i].v[1], content[i].v[2]>>

\* The glyph pattern tried at line s:
\*   ENCODING (\d+) \n .*? BBX (\d+) (\d+) (-?\d+) (-?\d+) \n .*? BITMAP \n (.*?) \nENDCHAR
\* with . matching line breaks. Each lazy .*? stops at the first later line that
\* lets the rest match; the rest needs only lines further on, so that is the first
\* BBX after s, the first BITMAP after it, and the first ENDCHAR that stands at
\* least one line below BITMAP (the group is enclosed by two line breaks).
MatchAt(content, s) ==
    LET b == IF s <= Len(content) /\ content[s].kind = "ENCODING"
             THEN FirstKind(content, s + 1, "BBX") ELSE 0
        m == IF b = 0 THEN 0 ELSE FirstKind(content, b + 1, "BITMAP")
        e == IF m = 0 THEN 0 ELSE FirstKind(content, m + 2, "ENDCHAR")
    IN [ok |-> e # 0, s |-> s, b |-> b, m |-> m, e |-> e]

\* re.finditer: the leftmost match starting at or after line from
RECURSIVE NextMatch(_, _)
NextMatch(content, from) ==
    IF from > Len(content) THEN [ok |-> FALSE, s |-> 0, b |-> 0, m |-> 0, e |-> 0]
    ELSE IF MatchAt(content, from).ok THEN MatchAt(content, from)
    ELSE NextMatch(content, from + 1)

\* [bool(val & (1 << (7 - bit))) for bit in range(w)];
\* 1 << n raises ValueError for n < 0, which bit = 8 reaches
DecodeRow(val, w) ==
    [ok |-> w <= 8,
     bits |-> [k \in 1..Min(w, 8) |-> (val \div Pow2(7 - (k - 1))) % 2 = 1]]

\* the loop over the lines of group 6, lines i..last of content
RECURSIVE DecodeRows(_, _, _, _)
DecodeRows(content, i, last, w) ==
    IF i > last THEN [ok |-> TRUE, rows |-> <<>>]
    ELSE IF content[i].kind # "HEX" THEN [ok |-> FALSE, rows |-> <<>>]
    ELSE LET row == DecodeRow(content[i].v[1], w)
             rest == DecodeRows(content, i + 1, last, w)
         IN IF row.ok /\ rest.ok
            THEN [ok |-> TRUE, rows |-> <<row.bits>> \o rest.rows]
            ELSE [ok |-> FALSE, rows |-> <<>>]

\* the body of the finditer loop for match mt: (ok, enc, glyph)
ParseGlyph(content, mt) ==
    LET bbx == content[mt.b].v
        dec == DecodeRows(content, mt.m + 1, mt.e - 1, bbx[1])
    IN [ok |-> dec.ok,
        enc |-> content[mt.s].v[1],
        glyph |-> [w |-> bbx[1], h |-> bbx[2], x_off |-> bbx[3], y_off |-> bbx[4],
                   glyph |-> dec.rows]]

\* self.glyphs[enc] = g
SetGlyph(glyphs, enc, g) ==
    [c \in DOMAIN glyphs \cup {enc} |-> IF c = enc THEN g ELSE glyphs[c]]

(***************************************************************************)
(* Glyph compositor                                                        *)
(***************************************************************************)
\* the last glyph's ascent instead of the largest
AscentStep_Last(asc, g) == g.h + g.y_off

\* max_ascent = max(max_ascent, h + y_off)
AscentStep(asc, g) == Max(asc, g.h + g.y_off)

\* the offset taken with the wrong sign
DescentStep_Sign(desc, g) == Max(desc, IF g.y_off < 0 THEN g.y_off ELSE 0)

\* max_descent = max(max_descent, -y_off if y_off < 0 else 0)
DescentStep(desc, g) == Max(desc, IF g.y_off < 0 THEN -g.y_off ELSE 0)

\* max_ascent + max_descent or self.height
TotalHeight(asc, desc, height) == IF asc + desc # 0 THEN asc + desc ELSE height

\* len(text) * self.width + max(0, len(text) - 1) * spacing
TotalWidth(n, width, spacing) == n * width + Max(0, n - 1) * spacing

\* [[False] * total_w for _ in range(total_h)]
BlankBitmap(th, tw) == [r \in 1..th |-> [c \in 1..tw |-> FALSE]]

\* the lower bound forgotten: a negative px then indexes from the row's end
PlotGuard_NoLower(px, tw) == px < tw /\ -tw <= px

\* if pixel and 0 <= px < total_w: bitmap[y][px] = True
PlotGuard(px, tw) == 0 <= px /\ px < tw

\* if 0 <= y < total_h
RowGuard(y, th) == 0 <= y /\ y < th

\* a list index as Python resolves it: a negative one counts from the end
PyIndex(i, n) == IF i < 0 THEN i + n ELSE i

\* the loop over enumerate(row), from column col_i on (0-based)
RECURSIVE DrawRow(_, _, _, _, _, _)
DrawRow(bm, row, col_i, y, x0, tw) ==
    IF col_i >= Len(row) THEN bm
    ELSE LET px == x0 + col_i
             nb == IF row[col_i + 1] /\ PlotGuard(px, tw)
                   THEN [bm EXCEPT ![y + 1][PyIndex(px, tw) + 1] = TRUE]
                   ELSE bm
         IN DrawRow(nb, row, col_i + 1, y, x0, tw)

\* the loop over enumerate(glyph), from row row_i on (0-based)
RECURSIVE DrawRows(_, _, _, _, _, _, _)
DrawRows(bm, g, row_i, y_start, x0, th, tw) ==
    IF row_i >= Len(g.glyph) THEN bm
    ELSE LET y == y_start + row_i
             nb == IF RowGuard(y, th)
                   THEN DrawRow(bm, g.glyph[row_i + 1], 0, y, x0, tw)
                   ELSE bm
         IN DrawRows(nb, g, row_i + 1, y_start, x0, th, tw)

\* y_start = max_ascent - h - y_off
YStart(asc, g) == asc - g.h - g.y_off

\* the body of the second loop for a character that has glyph g
DrawGlyph(bm, g, cursor, asc, th, tw) ==
    DrawRows(bm, g, 0, YStart(asc, g), cursor + g.x_off, th, tw)

\* x += self.width + spacing
Advance(cursor, width, spacing) == cursor + width + spacing

(***************************************************************************)
(* Inputs                                                                  *)
(***************************************************************************)
MaxRecords == 3

MaxPipeText == 1

MaxSpacing == 1

\* character codes a text is written in; record i of a source encodes Codes[i]
CodeOf(i) == 64 + i

Codes == {CodeOf(i) : i \in 1..MaxRecords}

SeqsUpTo(S, n) == UNION {[1..k -> S] : k \in 0..n}

\* what a glyph record declares: BBX and the values of its bitmap rows
Shapes ==
    { [w |-> 2, h |-> 2, x_off |-> 0, y_off |-> -1, rows |-> <<128, 192>>],
      [w |-> 9, h |-> 1, x_off |-> 1, y_off |-> 0, rows |-> <<65408>>] }

Defects ==
    {"none", "no_endchar", "no_encoding", "bad_encoding", "no_bbx", "bad_bbx", "no_bitmap"}

HexLines(rows) == [i \in 1..Len(rows) |-> Line("HEX", <<rows[i]>>)]

\* the lines of one glyph record
Record(enc, sh, defect) ==
    <<Line("TEXT", <<>>)>>
    \o (IF defect = "no_encoding" THEN <<>>
        ELSE IF defect = "bad_encoding" THEN <<Line("ENCODING_BAD", <<>>)>>
        ELSE <<Line("ENCODING", <<enc>>)>>)
    \o <<Line("TEXT", <<>>)>>
    \o (IF defect = "no_bbx" THEN <<>>
        ELSE IF defect = "bad_bbx" THEN <<Line("BBX_BAD", <<>>)>>
        ELSE <<Line("BBX", <<sh.w, sh.h, sh.x_off, sh.y_off>>)>>)
    \o (IF defect = "no_bitmap" THEN <<>> ELSE <<Line("BITMAP", <<>>)>>)
    \o HexLines(sh.rows)
    \o (IF defect = "no_endchar" THEN <<>> ELSE <<Line("ENDCHAR", <<>>)>>)

Forms == [shape : Shapes, defect : Defects]

RECURSIVE Records(_, _)
Records(forms, i) ==
    IF i > Len(forms) THEN <<>>
    ELSE Record(CodeOf(i), forms[i].shape, forms[i].defect) \o Records(forms, i + 1)

Headers ==
    { <<>>,
      <<Line("FONTBOUNDINGBOX", <<0, 0>>)>>,
      <<Line("FONTBOUNDINGBOX", <<3, 5>>)>> }

NoSize == [given |-> FALSE, valid |-> FALSE, w |-> 0, h |-> 0]

NoFont == [width |-> DEFAULT_WIDTH, height |-> DEFAULT_HEIGHT, glyphs |-> <<>>]

Args(readable, forms, content, text, spacing, size, threshold) ==
    [readable |-> readable, forms |-> forms, content |-> content, text |-> text,
     spacing |-> spacing, size |-> size, threshold |-> threshold]

DEFAULT_THRESHOLD == 128

\* a readable source of at most nrec records with a text of at most ntext
\* characters, or an unreadable one
PipelineArgs(nrec, ntext, nspace) ==
    { Args(TRUE, forms, header \o Records(forms, 1), text, spacing, NoSize, DEFAULT_THRESHOLD) :
        forms \in SeqsUpTo(Forms, nrec), header \in Headers,
        text \in SeqsUpTo(Codes, ntext), spacing \in 0..nspace }
    \cup
    { Args(FALSE, <<>>, <<>>, text, 0, NoSize, DEFAULT_THRESHOLD) :
        text \in SeqsUpTo(Codes, ntext) }

(***************************************************************************)
(* bdf_text_to_braille(text, font_path, spacing)                           *)
(***************************************************************************)
Locals0 ==
    /\ pos = 1
    /\ font = NoFont
    /\ max_ascent = 0
    /\ max_descent = 0
    /\ total_h = 0
    /\ total_w = 0
    /\ idx = 0
    /\ x = 0
    /\ bitmap = <<>>
    /\ char_size = <<>>
    /\ output = <<>>
    /\ raised = ""

Init ==
    /\ pc = "read"
    /\ args \in PipelineArgs(MaxRecords, MaxPipeText, MaxSpacing)
    /\ Locals0

\* path.read_text() fails: the error leaves bdf_text_to_braille
ReadFail ==
    /\ pc = "read"
    /\ ~args.readable
    /\ raised' = "OSError"
    /\ pc' = "done"
    /\ UNCHANGED <<args, pos, font, max_ascent, max_descent, total_h, total_w,
                   idx, x, bitmap, char_size, output>>

\* __init__'s defaults, then the FONTBOUNDINGBOX search of _parse
ParseHeader ==
    /\ pc = "read"
    /\ args.readable
    /\ font' = [width |-> FontBoundingBox(args.content)[1],
                height |-> FontBoundingBox(args.content)[2],
                glyphs |-> <<>>]
    /\ pos' = 1
    /\ pc' = "parse"
    /\ UNCHANGED <<args, max_ascent, max_descent, total_h, total_w,
                   idx, x, bitmap, char_size, output, raised>>

\* one iteration of the finditer loop that stores a glyph
ParseRecord ==
    /\ pc = "parse"
    /\ NextMatch(args.content, pos).ok
    /\ LET mt == NextMatch(args.content, pos)
           r == ParseGlyph(args.content, mt)
       IN /\ r.ok
          /\ font' = [font EXCEPT !.glyphs = SetGlyph(font.glyphs, r.enc, r.glyph)]
          /\ pos' = mt.e + 1
    /\ UNCHANGED <<pc, args, max_ascent, max_descent, total_h, total_w,
                   idx, x, bitmap, char_size, output, raised>>

\* one iteration of the finditer loop in which int(line, 16) or the shift raises
ParseRaise ==
    /\ pc = "parse"
    /\ NextMatch(args.content, pos).ok
    /\ ~ParseGlyph(args.content, NextMatch(args.content, pos)).ok
    /\ raised' = "ValueError"
    /\ pc' = "done"
    /\ UNCHANGED <<args, pos, font, max_ascent, max_descent, total_h, total_w,
                   idx, x, bitmap, char_size, output>>

\* finditer is exhausted: the font is built and render starts
ParseEnd ==
    /\ pc = "parse"
    /\ ~NextMatch(args.content, pos).ok
    /\ pc' = "measure"
    /\ max_ascent' = 0
    /\ max_descent' = 0
    /\ idx' = 0
    /\ UNCHANGED <<args, pos, font, total_h, total_w, x, bitmap, char_size,
                   output, raised>>

(***************************************************************************)
(* BDFFont.render(text, spacing)                                           *)
(***************************************************************************)
\* one iteration of the first loop
MeasureChar ==
    /\ pc = "measure"
    /\ idx < Len(args.text)
    /\ LET ch == args.text[idx + 1]
       IN IF ch \in DOMAIN font.glyphs
          THEN /\ max_ascent' = AscentStep(max_ascent, font.glyphs[ch])
               /\ max_descent' = DescentStep(max_descent, font.glyphs[ch])
          ELSE UNCHANGED <<max_ascent, max_descent>>
    /\ idx' = idx + 1
    /\ UNCHANGED <<pc, args, pos, font, total_h, total_w, x, bitmap, char_size,
                   output, raised>>

\* total_h, total_w, the blank bitmap, x = 0
Allocate ==
    /\ pc = "measure"
    /\ idx = Len(args.text)
    /\ total_h' = TotalHeight(max_ascent, max_descent, font.height)
    /\ total_w' = TotalWidth(Len(args.text), font.width, args.spacing)
    /\ bitmap' = BlankBitmap(total_h', total_w')
    /\ x' = 0
    /\ idx' = 0
    /\ pc' = "draw"
    /\ UNCHANGED <<args, pos, font, max_ascent, max_descent, char_size, output, raised>>

\* one iteration of the second loop, for a character that has a glyph
DrawChar ==
    /\ pc = "draw"
    /\ idx < Len(args.text)
    /\ args.text[idx + 1] \in DOMAIN font.glyphs
    /\ bitmap' = DrawGlyph(bitmap, font.glyphs[args.text[idx + 1]], x, max_ascent,
                           total_h, total_w)
    /\ x' = Advance(x, font.width, args.spacing)
    /\ idx' = idx + 1
    /\ UNCHANGED <<pc, args, pos, font, max_ascent, max_descent, total_h, total_w,
                   char_size, output, raised>>

\* a character without a glyph skipped before the cursor moves
BlankChar_NoAdvance ==
    /\ pc = "draw"
    /\ idx < Len(args.text)
    /\ args.text[idx + 1] \notin DOMAIN font.glyphs
    /\ idx' = idx + 1
    /\ UNCHANGED <<pc, args, pos, font, max_ascent, max_descent, total_h, total_w,
                   x, bitmap, char_size, output, raised>>

\* one iteration of the second loop, for a character that has none
BlankChar ==
    /\ pc = "draw"
    /\ idx < Len(args.text)
    /\ args.text[idx + 1] \notin DOMAIN font.glyphs
    /\ x' = Advance(x, font.width, args.spacing)
    /\ idx' = idx + 1
    /\ UNCHANGED <<pc, args, pos, font, max_ascent, max_descent, total_h, total_w,
                   bitmap, char_size, output, raised>>

\* return bitmap
RenderReturn ==
    /\ pc = "draw"
    /\ idx = Len(args.text)
    /\ pc' = "rendered"
    /\ UNCHANGED <<args, pos, font, max_ascent, max_descent, total_h, total_w,
                   idx, x, bitmap, char_size, output, raised>>

\* _bitmap_to_braille(bitmap)
Encode ==
    /\ pc = "rendered"
    /\ output' = bitmap_to_braille(bitmap)
    /\ pc' = "done"
    /\ UNCHANGED <<args, pos, font, max_ascent, max_descent, total_h, total_w,
                   idx, x, bitmap, char_size, raised>>

Next ==
    \/ ReadFail
    \/ ParseHeader
    \/ ParseRecord
    \/ ParseRaise
    \/ ParseEnd
    \/ MeasureChar
    \/ Allocate
    \/ DrawChar
    \/ BlankChar
    \/ RenderReturn
    \/ Encode

Spec == Init /\ [][Next]_vars

(***************************************************************************)
(* BDFFont.render on its own: fonts given directly                         *)
(***************************************************************************)
MaxText == 2

MaxGH == 2

MaxGW == 2

MaxOff == 1

\* texts are written in the first two codes; a font may lack either
TextCodes == {CodeOf(1), CodeOf(2)}

\* (width, height) of the font's bounding box
FontBoxes == { <<0, 0>>, <<2, 3>> }

Offsets == (-MaxOff)..MaxOff

\* a glyph of width 1 whose h rows are all ink
SolidGlyph(h, y_off) ==
    [w |-> 1, h |-> h, x_off |-> 0, y_off |-> y_off,
     glyph |-> [r \in 1..h |-> <<TRUE>>]]

MetricGlyphs == {SolidGlyph(h, y_off) : h \in 0..MaxGH, y_off \in Offsets}

\* the glyph mappings over TextCodes with glyphs from G
GlyphMaps(G) ==
    UNION {[D -> G] : D \in SUBSET TextCodes}

MetricFonts ==
    {[width |-> b[1], height |-> b[2], glyphs |-> gm] :
        b \in FontBoxes, gm \in GlyphMaps(MetricGlyphs)}

\* every pixel matrix of at most n rows of w pixels
Bitmaps(w, n) == UNION {[1..k -> [1..w -> BOOLEAN]] : k \in 0..n}

\* glyphs up to gw wide with up to gh rows; the declared height h is whatever BBX
\* says, not the number of rows
InkGlyphs(gw, gh) ==
    UNION { {[w |-> w, h |-> h, x_off |-> xo, y_off |-> yo, glyph |-> bm] :
                h \in 0..gh, xo \in Offsets, yo \in Offsets, bm \in Bitmaps(w, gh)} :
            w \in 0..gw }

\* fonts with one glyph, for the first code
InkFonts(gw, gh) ==
    {[width |-> b[1], height |-> b[2], glyphs |-> (CodeOf(1) :> g)] :
        b \in FontBoxes, g \in InkGlyphs(gw, gh)}

RenderArgs ==
    { Args(TRUE, <<>>, <<>>, text, spacing, NoSize, DEFAULT_THRESHOLD) :
        text \in SeqsUpTo(TextCodes, MaxText), spacing \in 0..MaxSpacing }

RenderLocals0 ==
    /\ pos = 1
    /\ max_ascent = 0
    /\ max_descent = 0
    /\ total_h = 0
    /\ total_w = 0
    /\ idx = 0
    /\ x = 0
    /\ bitmap = <<>>
    /\ char_size = <<>>
    /\ output = <<>>
    /\ raised = ""

InitMetrics ==
    /\ pc = "measure"
    /\ args \in RenderArgs
    /\ font \in MetricFonts
    /\ RenderLocals0

InitRender ==
    /\ pc = "measure"
    /\ args \in RenderArgs
    /\ font \in InkFonts(MaxGW, MaxGH)
    /\ RenderLocals0

NextRender ==
    \/ MeasureChar
    \/ Allocate
    \/ DrawChar
    \/ BlankChar
    \/ RenderReturn

SpecMetrics == InitMetrics /\ [][NextRender]_vars

SpecRender == InitRender /\ [][NextRender]_vars

(***************************************************************************)
(* _bitmap_to_braille on its own: canvases given directly                  *)
(***************************************************************************)
MaxH == 5

MaxW == 3

MaxInk == 2

\* the subsets of S of at most k elements
RECURSIVE SubsetsUpTo(_, _)
SubsetsUpTo(S, k) ==
    IF k = 0 THEN {{}}
    ELSE LET prev == SubsetsUpTo(S, k - 1)
         IN prev \cup {T \cup {e} : T \in prev, e \in S}

\* the h x w canvases that differ from an all-false or an all-true canvas in at
\* most k pixels
CanvasesOf(h, w, k) ==
    {[r \in 1..h |-> [c \in 1..w |-> (<<r, c>> \in D) # bg]] :
        D \in SubsetsUpTo((1..h) \X (1..w), k), bg \in BOOLEAN}

Canvases(mh, mw, k) == UNION {CanvasesOf(h, w, k) : h \in 0..mh, w \in 0..mw}

InitEncode ==
    /\ pc = "rendered"
    /\ args = Args(TRUE, <<>>, <<>>, <<>>, 0, NoSize, DEFAULT_THRESHOLD)
    /\ font = NoFont
    /\ bitmap \in Canvases(MaxH, MaxW, MaxInk)
    /\ pos = 1
    /\ max_ascent = 0
    /\ max_descent = 0
    /\ total_h = 0
    /\ total_w = 0
    /\ idx = 0
    /\ x = 0
    /\ char_size = <<>>
    /\ output = <<>>
    /\ raised = ""

NextEncode == Encode

SpecEncode == InitEncode /\ [][NextEncode]_vars

(***************************************************************************)
(* cli.main, the outline-font route, and text_to_braille                   *)
(***************************************************************************)
MaxBW == 16

MaxBH == 8

Thresholds == {0, DEFAULT_THRESHOLD, 255}

\* --size: absent, not WxH, or WxH
Sizes ==
    {NoSize, [given |-> TRUE, valid |-> FALSE, w |-> 0, h |-> 0]}
    \cup {[given |-> TRUE, valid |-> TRUE, w |-> w, h |-> h] : w \in 0..MaxBW, h \in 0..MaxBH}

OutlineArgs ==
    { Args(TRUE, <<>>, <<>>, text, 0, size, threshold) :
        text \in SeqsUpTo({CodeOf(1)}, MaxPipeText), size \in Sizes,
        threshold \in Thresholds }

InitOutline ==
    /\ pc = "main"
    /\ args \in OutlineArgs
    /\ Locals0

\* no --size: char_size = (16, 16)
MainDefaultSize ==
    /\ pc = "main"
    /\ ~args.size.given
    /\ char_size' = <<16, 16>>
    /\ pc' = "text_to_braille"
    /\ UNCHANGED <<args, pos, font, max_ascent, max_descent, total_h, total_w,
                   idx, x, bitmap, output, raised>>

\* --size that is not WxH: the message, then sys.exit(1)
MainBadSize ==
    /\ pc = "main"
    /\ args.size.given
    /\ ~args.size.valid
    /\ raised' = "SystemExit"
    /\ pc' = "done"
    /\ UNCHANGED <<args, pos, font, max_ascent, max_descent, total_h, total_w,
                   idx, x, bitmap, char_size, output>>

\* char_size = get_preset(braille_w, braille_h)
MainPreset ==
    /\ pc = "main"
    /\ args.size.given
    /\ args.size.valid
    /\ char_size' = get_preset(args.size.w, args.size.h)
    /\ pc' = "text_to_braille"
    /\ UNCHANGED <<args, pos, font, max_ascent, max_descent, total_h, total_w,
                   idx, x, bitmap, output, raised>>

\* if not text: return ""
TextEmpty ==
    /\ pc = "text_to_braille"
    /\ Len(args.text) = 0
    /\ output' = <<>>
    /\ pc' = "done"
    /\ UNCHANGED <<args, pos, font, max_ascent, max_descent, total_h, total_w,
                   idx, x, bitmap, char_size, raised>>

\* char_w, char_h = char_size, for a char_size that is not a pair
TextUnpackFail ==
    /\ pc = "text_to_braille"
    /\ Len(args.text) > 0
    /\ Len(char_size) # 2
    /\ raised' = "ValueError"
    /\ pc' = "done"
    /\ UNCHANGED <<args, pos, font, max_ascent, max_descent, total_h, total_w,
                   idx, x, bitmap, char_size, output>>

\* The image of char_w * len(text) by char_h pixels, drawn by the imaging library,
\* then binarised (value < threshold) and encoded. What the library draws is its
\* own; the rasters taken here are the uniform ones, white (255) or black (0).
Rasterize ==
    /\ pc = "text_to_braille"
    /\ Len(args.text) > 0
    /\ Len(char_size) = 2
    /\ total_w' = char_size[1] * Len(args.text)
    /\ total_h' = char_size[2]
    /\ \E grey \in {0, 255} :
         bitmap' = [r \in 1..total_h' |-> [c \in 1..total_w' |-> grey < args.threshold]]
    /\ output' = bitmap_to_braille(bitmap')
    /\ pc' = "done"
    /\ UNCHANGED <<args, pos, font, max_ascent, max_descent, idx, x, char_size, raised>>

NextOutline ==
    \/ MainDefaultSize
    \/ MainBadSize
    \/ MainPreset
    \/ TextEmpty
    \/ TextUnpackFail
    \/ Rasterize

SpecOutline == InitOutline /\ [][NextOutline]_vars

(***************************************************************************)
(* Properties                                                              *)
(***************************************************************************)
CeilDiv(a, b) == (a + b - 1) \div b

SetMax(S) == CHOOSE m \in S : \A n \in S : n <= m

\* a string cut at its line breaks: "" is one empty line
RECURSIVE SplitLines(_, _)
SplitLines(str, cur) ==
    IF Len(str) = 0 THEN <<cur>>
    ELSE IF Head(str) = NEWLINE THEN <<cur>> \o SplitLines(Tail(str), <<>>)
    ELSE SplitLines(Tail(str), Append(cur, Head(str)))

CanvasH == Len(bitmap)

CanvasW == IF Len(bitmap) = 0 THEN 0 ELSE Len(bitmap[1])

\* C1: get_preset(w, h) is the pixel pair of the preset table for a listed (w, h)
\* and exactly (w * 2, h * 4) for any other.
C1_PresetOrDerived ==
    (pc = "text_to_braille" /\ args.size.given) =>
        LET w == args.size.w
            h == args.size.h
        IN /\ Len(char_size) = 2
           /\ IF <<w, h>> \in DOMAIN PRESETS
              THEN char_size[1] = PRESETS[<<w, h>>][1] /\ char_size[2] = PRESETS[<<w, h>>][2]
              ELSE char_size[1] = w * 2 /\ char_size[2] = h * 4

\* bit (7 - k mod 8) of byte floor(k / 8) of a row of nbytes bytes, k from 0
RowBit(val, nbytes, k) ==
    LET byte == (val \div Pow2(8 * (nbytes - 1 - (k \div 8)))) % 256
    IN (byte \div Pow2(7 - (k % 8))) % 2 = 1

\* what a well-formed record of shape sh stands for
RecordGlyph(sh) ==
    [w |-> sh.w, h |-> sh.h, x_off |-> sh.x_off, y_off |-> sh.y_off,
     glyph |-> [r \in 1..Len(sh.rows) |->
                  [k \in 1..sh.w |-> RowBit(sh.rows[r], CeilDiv(sh.w, 8), k - 1)]]]

Decoded == pc \notin {"read", "parse"} /\ args.readable

WellFormed == {i \in 1..Len(args.forms) : args.forms[i].defect = "none"}

\* C2: decoding a source in which some glyph records are malformed never raises and
\* yields exactly the well-formed records, each with its own encoding, metrics and
\* pixels (stated for sources whose records are at most 8 pixels wide).
C2_ExactlyWellFormed ==
    (Decoded /\ \A i \in 1..Len(args.forms) : args.forms[i].shape.w <= 8) =>
        /\ raised = ""
        /\ DOMAIN font.glyphs = {CodeOf(i) : i \in WellFormed}
        /\ \A i \in WellFormed : font.glyphs[CodeOf(i)] = RecordGlyph(args.forms[i].shape)

\* C9: every bitmap row of a record of declared width w, w > 8 included, decodes to
\* exactly w booleans, most significant bit first over the row's bytes, and decoding
\* never fails (stated for sources all of whose records are well-formed).
C9_RowsDecodeMsbFirst ==
    (Decoded /\ WellFormed = 1..Len(args.forms)) =>
        /\ raised = ""
        /\ \A i \in WellFormed :
             /\ CodeOf(i) \in DOMAIN font.glyphs
             /\ font.glyphs[CodeOf(i)].glyph = RecordGlyph(args.forms[i].shape).glyph

\* C8: empty text through the bitmap-font pipeline returns the empty string and
\* raises nothing, whatever readable font is given.
C8_EmptyTextEmptyOutput ==
    (pc = "done" /\ args.readable /\ Len(args.text) = 0) =>
        raised = "" /\ output = <<>>

\* the claim's dot-to-bit mapping
DotBit(dx, dy) ==
    IF dx = 0 THEN (IF dy = 0 THEN 1 ELSE IF dy = 1 THEN 2 ELSE IF dy = 2 THEN 4 ELSE 64)
    ELSE (IF dy = 0 THEN 8 ELSE IF dy = 1 THEN 16 ELSE IF dy = 2 THEN 32 ELSE 128)

\* the bit of dot (dx, dy) of the cell at (cx, cy) if its pixel is inside and true
DotValue(cx, cy, dx, dy) ==
    IF cy + dy < CanvasH /\ cx + dx < CanvasW /\ bitmap[cy + dy + 1][cx + dx + 1]
    THEN DotBit(dx, dy) ELSE 0

CellValue(cx, cy) ==
    BRAILLE_BASE
    + DotValue(cx, cy, 0, 0) + DotValue(cx, cy, 0, 1) + DotValue(cx, cy, 0, 2)
    + DotValue(cx, cy, 0, 3) + DotValue(cx, cy, 1, 0) + DotValue(cx, cy, 1, 1)
    + DotValue(cx, cy, 1, 2) + DotValue(cx, cy, 1, 3)

AllPixels(v) == \A r \in 1..CanvasH : \A c \in 1..CanvasW : bitmap[r][c] = v

\* C3: for a canvas of at least one row and one column, the character of the cell
\* whose top-left pixel is (x, y) is U+2800 plus the bits of the dots whose pixel
\* lies inside the canvas and is true; an all-false 2x4 canvas gives U+2800, only
\* (0,0) set gives U+2801, all eight set gives U+28FF.
C3_CellCodepoint ==
    (pc = "done" /\ CanvasH >= 1 /\ CanvasW >= 1) =>
        /\ raised = ""
        /\ \A cy \in {y \in 0..(CanvasH - 1) : y % 4 = 0} :
             \A cx \in {xx \in 0..(CanvasW - 1) : xx % 2 = 0} :
                SplitLines(output, <<>>)[(cy \div 4) + 1][(cx \div 2) + 1] = CellValue(cx, cy)
        /\ (CanvasH = 4 /\ CanvasW = 2 /\ AllPixels(FALSE)) => output = <<10240>>
        /\ (CanvasH = 4 /\ CanvasW = 2 /\ AllPixels(TRUE)) => output = <<10495>>
        /\ (CanvasH = 4 /\ CanvasW = 2 /\ bitmap[1][1]
              /\ \A r \in 1..4 : \A c \in 1..2 : (bitmap[r][c] => r = 1 /\ c = 1)) =>
             output = <<10241>>

\* a canvas whose last row and last column start cells of their own, with ink there
C3_Witness ==
    pc = "done" /\ CanvasH = 5 /\ CanvasW = 3 /\ bitmap[5][3] /\ bitmap[1][2]

\* C4 as claimed: for every canvas of height H and width W the output is
\* ceil(H / 4) lines of ceil(W / 2) characters, joined by line breaks.
C4_LinesAndColumns ==
    pc = "done" =>
        IF CeilDiv(CanvasH, 4) = 0 THEN output = <<>>
        ELSE /\ Len(SplitLines(output, <<>>)) = CeilDiv(CanvasH, 4)
             /\ \A i \in 1..Len(SplitLines(output, <<>>)) :
                  Len(SplitLines(output, <<>>)[i]) = CeilDiv(CanvasW, 2)

\* C4 as amended: for a canvas with H >= 1 and W >= 1 the output is ceil(H / 4)
\* lines of ceil(W / 2) characters each, with no trailing line break; for H = 0 or
\* W = 0 it is the empty string, whatever H is.
C4_LinesAndColumnsNonEmpty ==
    pc = "done" =>
        IF CanvasH = 0 \/ CanvasW = 0 THEN output = <<>>
        ELSE /\ Len(SplitLines(output, <<>>)) = CeilDiv(CanvasH, 4)
             /\ \A i \in 1..Len(SplitLines(output, <<>>)) :
                  Len(SplitLines(output, <<>>)[i]) = CeilDiv(CanvasW, 2)
             /\ output[Len(output)] # NEWLINE

\* two row bands of two cells each
C4_Witness ==
    pc = "done" /\ CanvasH = 5 /\ CanvasW = 3 /\ Len(output) = 5

\* the glyphs the font has for the characters of the text
UsedGlyphs ==
    {font.glyphs[args.text[i]] : i \in {j \in 1..Len(args.text) : args.text[j] \in DOMAIN font.glyphs}}

Descents == {IF g.y_off < 0 THEN -g.y_off ELSE 0 : g \in UsedGlyphs}

Allocated == pc \in {"draw", "rendered"}

\* C5 as claimed: the canvas height is maxAscent + maxDescent, maxAscent the
\* maximum of (h + yOff) over the used glyphs and maxDescent the maximum of -yOff
\* over those with yOff < 0 (0 if none); the font's default height only when both
\* are zero.
C5_HeightFromMetrics ==
    Allocated =>
        LET asc == IF UsedGlyphs = {} THEN 0 ELSE SetMax({g.h + g.y_off : g \in UsedGlyphs})
            desc == SetMax(Descents \cup {0})
        IN CanvasH = IF asc = 0 /\ desc = 0 THEN font.height ELSE asc + desc

\* C5 as amended: maxAscent is the maximum of 0 and of (h + yOff) over the used
\* glyphs (the canvas always reaches up to the baseline); the rest as claimed.
C5_HeightFromFlooredAscent ==
    Allocated =>
        LET asc == SetMax({g.h + g.y_off : g \in UsedGlyphs} \cup {0})
            desc == SetMax(Descents \cup {0})
        IN /\ max_ascent = asc
           /\ max_descent = desc
           /\ total_h = (IF asc = 0 /\ desc = 0 THEN font.height ELSE asc + desc)
           /\ CanvasH = total_h

\* a text whose glyphs differ in ascent and descent, one of them below the baseline
C5_Witness ==
    /\ Allocated
    /\ \E g \in UsedGlyphs : g.h + g.y_off < 0
    /\ \E g \in UsedGlyphs : g.h + g.y_off > 0 /\ g.y_off < 0

AllOnBaseline == UsedGlyphs # {} /\ \A g \in UsedGlyphs : g.y_off = 0

\* C6 as claimed: when every used glyph has yOff = 0 and the text uses a glyph,
\* maxDescent = 0 and the canvas height is the height of the tallest used glyph.
C6_TallestGlyph ==
    (Allocated /\ AllOnBaseline) =>
        max_descent = 0 /\ CanvasH = SetMax({g.h : g \in UsedGlyphs})

\* C6 as amended: the same when the tallest used glyph has a positive height;
\* when every used glyph has height 0 the canvas has the font's default height.
C6_TallestGlyphOrDefault ==
    (Allocated /\ AllOnBaseline) =>
        /\ max_descent = 0
        /\ CanvasH = IF SetMax({g.h : g \in UsedGlyphs}) > 0
                     THEN SetMax({g.h : g \in UsedGlyphs}) ELSE font.height

\* the taller glyph first, the shorter one second
C6_Witness ==
    /\ Allocated /\ AllOnBaseline
    /\ Len(args.text) = 2
    /\ args.text[1] \in DOMAIN font.glyphs /\ args.text[2] \in DOMAIN font.glyphs
    /\ font.glyphs[args.text[1]].h > font.glyphs[args.text[2]].h

Step == font.width + args.spacing

\* C7: a character without a glyph leaves the canvas as it is, raises nothing and
\* advances the cursor like any other: every character j starts its cell at
\* j * (fontDefaultWidth + spacing), and a non-empty text's canvas is
\* len * fontDefaultWidth + (len - 1) * spacing wide.
C7_BlankCellAdvances ==
    [][ (pc = "draw" /\ idx < Len(args.text)) =>
          /\ x = idx * Step
          /\ x' = (idx + 1) * Step
          /\ idx' = idx + 1
          /\ raised' = ""
          /\ total_w = Len(args.text) * font.width + (Len(args.text) - 1) * args.spacing
          /\ \A r \in 1..Len(bitmap') : Len(bitmap'[r]) = total_w
          /\ (args.text[idx + 1] \notin DOMAIN font.glyphs => bitmap' = bitmap) ]_vars

\* a character without a glyph was passed, and the glyph after it left ink
C7_Witness ==
    /\ pc = "rendered"
    /\ Len(args.text) = 2
    /\ args.spacing > 0
    /\ args.text[1] \notin DOMAIN font.glyphs
    /\ args.text[2] \in DOMAIN font.glyphs
    /\ font.width > 0
    /\ \E r \in 1..CanvasH : bitmap[r][Step + 1]

\* glyph pixel (row, col) of character i lands on canvas pixel (y, px)
Lands(i, row, col, y, px) ==
    LET g == font.glyphs[args.text[i + 1]]
    IN /\ g.glyph[row + 1][col + 1]
       /\ y = max_ascent - g.h - g.y_off + row
       /\ px = i * Step + g.x_off + col

\* the characters drawn so far that have a glyph
Drawn == {i \in 0..(idx - 1) : args.text[i + 1] \in DOMAIN font.glyphs}

GlyphPixels(i) ==
    LET g == font.glyphs[args.text[i + 1]]
    IN {rc \in (0..(Len(g.glyph) - 1)) \X (0..(g.w - 1)) : g.glyph[rc[1] + 1][rc[2] + 1]}

\* C10: canvas pixel (y, px) is true exactly when some drawn character's glyph has
\* a true pixel (row, col) with y = maxAscent - h - yOff + row and
\* px = i * (fontDefaultWidth + spacing) + xOff + col; pixels aimed outside the
\* canvas are dropped, the canvas keeps its size, and ink stays once written.
C10_InkExactlyWhereGlyphsLand ==
    Allocated =>
        /\ raised = ""
        /\ CanvasH = total_h
        /\ \A r \in 1..CanvasH : Len(bitmap[r]) = total_w
        /\ \A y \in 0..(total_h - 1) : \A px \in 0..(total_w - 1) :
             bitmap[y + 1][px + 1] <=>
                \E i \in Drawn : \E rc \in GlyphPixels(i) : Lands(i, rc[1], rc[2], y, px)

\* one glyph pixel landed and another, aimed left of the canvas, was dropped
C10_Witness ==
    /\ pc = "rendered"
    /\ \E r \in 1..CanvasH : \E c \in 1..CanvasW : bitmap[r][c]
    /\ \E i \in Drawn : \E rc \in GlyphPixels(i) :
         i * Step + font.glyphs[args.text[i + 1]].x_off + rc[2] < 0

====
